---------------------------- MODULE Spec2Model ----------------------------
(***************************************************************************)
(* State-machine model of cascadb's block layout (src/serialize/layout.cpp) *)
(* : the block index, the hole list, the file end offset, the two          *)
(* superblock copies and the index block on disk, asynchronous writes with *)
(* their completion handlers, delete_block, flush, crash and reopen.       *)
(*                                                                         *)
(* An action is one critical section (one mutex acquisition) or one I/O of *)
(* the code, so that threads interleave exactly where the code lets them.  *)
(***************************************************************************)
EXTENDS Integers, Sequences, FiniteSets, TLC

(***************************************************************************)
(* Program constants (serialize/layout.h, util/bits.h, options.h).         *)
(***************************************************************************)
PAGE_SIZE == 4096
SUPER_BLOCK_SIZE == 4096
BLOCK_META_SIZE == 18
kNoCompress == 0
kSnappyCompress == 1
MAGIC == 7

(***************************************************************************)
(* Bounds of the model.                                                    *)
(***************************************************************************)
NBids == 2          \* block ids the modelled callers name: 1..NBids
NBase == 158        \* blocks already stored in a file opened with create=false
MaxWrites == 3      \* async_write calls in one behaviour
MaxDeletes == 1     \* delete_block calls in one behaviour
MaxFlushes == 2     \* flush calls in one behaviour (the destructor's included)
MaxFails == 1       \* I/O operations that complete with failure
MaxReopens == 1     \* crash or close followed by init(create=false)
MaxThreads == 2     \* calls of the layout in progress at the same time
MaxReads == 1       \* calls of async_read in a behaviour
MaxCalls == 4       \* async_write, delete_block and flush calls in one behaviour

Bids == 1..NBids
Reqs == 1..MaxWrites

PAGE_ROUND_UP(x) == ((x + PAGE_SIZE - 1) \div PAGE_SIZE) * PAGE_SIZE

Max(a, b) == IF a > b THEN a ELSE b

(***************************************************************************)
(* BlockMeta.  crc is never assigned by layout.cpp and is left out.        *)
(***************************************************************************)
BlockMeta(o, i, c) == [offset |-> o, inflated_size |-> i, compressed_size |-> c]

\* new BlockMeta(): every field zero
NewBlockMeta == BlockMeta(0, 0, 0)

Extent(m) == [offset |-> m.offset, size |-> PAGE_ROUND_UP(m.compressed_size)]

ExtEnd(e) == e.offset + e.size

Overlap(e1, e2) == e1.offset < ExtEnd(e2) /\ e2.offset < ExtEnd(e1)

(***************************************************************************)
(* Buffers.  A buffer is the byte string of a user block (kind "blk",      *)
(* identified by data) or of a serialized index (kind "idx", identified by *)
(* its entries), raw or snappy-compressed; size is its exact length.       *)
(***************************************************************************)
Buffer(codec, kind, data, count, entries, size, inflated) ==
    [codec |-> codec, kind |-> kind, data |-> data, count |-> count,
     entries |-> entries, size |-> size, inflated |-> inflated]

\* The user blocks the modelled callers write: the d-th async_write of a
\* behaviour writes block d, whose bytes differ from every other block's;
\* odd blocks hold 1000 bytes, even blocks 9000.
BlockSize(d) == IF d % 2 = 1 THEN 1000 ELSE 9000

Block(d) == Buffer("raw", "blk", d, 0, <<>>, BlockSize(d), BlockSize(d))

\* snappy::RawCompress: the length of the compressed form of a buffer; the
\* modelled buffers compress to half their length.
SnappyLength(buf) == (buf.size \div 2) + 1

(***************************************************************************)
(* Layout::compress_data: <<output_buffer, output_size>>                   *)
(***************************************************************************)
compress_data(compress, input) ==
    IF compress = kNoCompress
    THEN <<input, input.size>>
    ELSE <<[input EXCEPT !.codec = "snappy", !.size = SnappyLength(input)],
           SnappyLength(input)>>

(***************************************************************************)
(* Layout::uncompress_data on the bytes read for a meta.  The result is    *)
(* the inflated buffer, or Garbage when the bytes read are not the ones a  *)
(* compress_data with these sizes produced (kNoCompress hands the bytes    *)
(* through; snappy::RawUncompress fails or yields other bytes).            *)
(***************************************************************************)
Garbage == Buffer("none", "none", 0, 0, <<>>, 0, 0)

uncompress_data(compress, input, input_size, output_size) ==
    IF compress = kNoCompress
    THEN IF input.codec = "raw" /\ input.size = input_size /\ input_size = output_size
         THEN input ELSE Garbage
    ELSE IF input.codec = "snappy" /\ input.size = input_size
            /\ input.inflated = output_size
         THEN [input EXCEPT !.codec = "raw", !.size = input.inflated]
         ELSE Garbage

(***************************************************************************)
(* Hole list.  Hole == [offset, size]; the list is a sequence.             *)
(***************************************************************************)
Hole(o, s) == [offset |-> o, size |-> s]

\* The binary search of add_hole (lines 889-904): the position of the last
\* hole whose offset is below off, or 1 when there is none.
RECURSIVE BinarySearch(_, _, _, _, _)
BinarySearch(hl, first, count, prev, off) ==
    IF count <= 0 THEN prev
    ELSE LET step == count \div 2
             it == first + step
         IN IF hl[it].offset < off
            THEN BinarySearch(hl, it + 1, count - (step + 1), it, off)
            ELSE BinarySearch(hl, first, step, prev, off)

InsertAt(hl, i, h) == SubSeq(hl, 1, i - 1) \o <<h>> \o SubSeq(hl, i, Len(hl))

RemoveAt(hl, i) == SubSeq(hl, 1, i - 1) \o SubSeq(hl, i + 1, Len(hl))

\* The merge with the successor (lines 932-936); p is the position of prev,
\* its successor is at p + 1.
MergeNext(hl, p) ==
    IF p + 1 <= Len(hl) /\ hl[p].offset + hl[p].size = hl[p + 1].offset
    THEN RemoveAt([hl EXCEPT ![p].size = hl[p].size + hl[p + 1].size], p + 1)
    ELSE hl

(***************************************************************************)
(* Layout::add_hole, the part under hole_list_mtx_ (lines 877-937):        *)
(* [list, failed], failed when one of its asserts does not hold.           *)
(***************************************************************************)
add_hole_list(hl, hole) ==
    IF Len(hl) = 0 THEN [list |-> <<hole>>, failed |-> FALSE]
    ELSE LET prev == BinarySearch(hl, 1, Len(hl), 1, hole.offset)
         IN IF prev = 1 /\ hl[1].offset > hole.offset
            THEN IF hole.offset + hole.size > hl[1].offset
                 THEN [list |-> hl, failed |-> TRUE]
                 ELSE IF hole.offset + hole.size = hl[1].offset
                      THEN [list |-> [hl EXCEPT ![1] =
                                        Hole(hole.offset, hl[1].size + hole.size)],
                            failed |-> FALSE]
                      ELSE [list |-> <<hole>> \o hl, failed |-> FALSE]
            ELSE IF ~(hl[prev].offset < hole.offset)
                    \/ ~(hl[prev].offset + hl[prev].size <= hole.offset)
                 THEN [list |-> hl, failed |-> TRUE]
                 ELSE IF hl[prev].offset + hl[prev].size = hole.offset
                      THEN [list |-> MergeNext(
                                [hl EXCEPT ![prev].size = hl[prev].size + hole.size],
                                prev),
                            failed |-> FALSE]
                      ELSE [list |-> MergeNext(InsertAt(hl, prev + 1, hole), prev + 1),
                            failed |-> FALSE]

(***************************************************************************)
(* Layout::add_hole, the part under mtx_ (lines 870-875): whether the hole *)
(* ends at the file end offset and is absorbed into it.                    *)
(***************************************************************************)
add_hole_absorbs(off_, hole) == hole.offset + hole.size = off_

(***************************************************************************)
(* Layout::get_hole (lines 940-960): first fit.                            *)
(* [found, offset, list]                                                   *)
(***************************************************************************)
RECURSIVE FirstFit(_, _, _)
FirstFit(hl, i, size) ==
    IF i > Len(hl) THEN 0
    ELSE IF hl[i].size >= size THEN i
    ELSE FirstFit(hl, i + 1, size)

\* get_hole that takes the whole of the first hole that fits
get_hole_whole(hl, size) ==
    LET i == FirstFit(hl, 1, size)
    IN IF i = 0 THEN [found |-> FALSE, offset |-> 0, list |-> hl]
       ELSE [found |-> TRUE, offset |-> hl[i].offset, list |-> RemoveAt(hl, i)]

get_hole(hl, size) ==
    LET i == FirstFit(hl, 1, size)
    IN IF i = 0 THEN [found |-> FALSE, offset |-> 0, list |-> hl]
       ELSE IF hl[i].size > size
            THEN [found |-> TRUE, offset |-> hl[i].offset,
                  list |-> [hl EXCEPT ![i] = Hole(hl[i].offset + size, hl[i].size - size)]]
            ELSE [found |-> TRUE, offset |-> hl[i].offset, list |-> RemoveAt(hl, i)]

(***************************************************************************)
(* The three mutexes of a Layout and the threads that take them.           *)
(***************************************************************************)
Mutexes == {"mtx_", "block_index_mtx_", "hole_list_mtx_"}

Threads == 1..MaxThreads

NoWalk == [op |-> "none", at |-> 0]

(***************************************************************************)
(* State.                                                                  *)
(***************************************************************************)
VARIABLES
    options_,             \* options_.compress
    offset_,              \* the file end offset
    length_,              \* the cached file length
    fly_writes_,
    block_index_,         \* bid -> BlockMeta, for the bids of Bids
    nbase,                \* entries of block_index_ for bids outside Bids
    block_offset_index_,  \* offset -> the owner of the meta (a bid, or IndexRef)
    superblock_,          \* [magic_number, compress, index_block_meta]
    hole_list_,
    sb,                   \* the two superblock copies on disk
    disk,                 \* page offset -> [buf, page], the pages written
    file_size,            \* the length of the file on disk
    phase,                \* "new", "open", "failed", "closed", "crashed", "aborted"
    req,                  \* the async_write requests
    del,                  \* the thread calling delete_block
    fl,                   \* the thread calling flush
    budget,               \* operations used so far
    last_ok,              \* bid -> the buffer of the last write installed for it
    expect,               \* last_ok when the layout was closed
    committed,            \* the index bytes written for the meta of each copy
    idx_bytes,            \* the index bytes written for superblock_'s meta
    fly_reads_,
    rd,                   \* the async_read request
    held,                 \* mutex -> the thread that holds it, 0 when free
    walk                  \* thread -> the operation it runs and its position

memVars == <<offset_, length_, fly_writes_, block_index_, nbase,
             block_offset_index_, superblock_, hole_list_>>

diskVars == <<sb, disk, file_size>>

ctlVars == <<phase, req, del, fl, budget>>

ghostVars == <<last_ok, expect, committed, idx_bytes>>

readVars == <<fly_reads_, rd>>

lockVars == <<held, walk>>

vars == <<options_, memVars, diskVars, ctlVars, ghostVars, readVars, lockVars>>

\* block_offset_index_ maps to BlockMeta pointers: the owner stands for the
\* pointer, IndexRef for superblock_->index_block_meta.
IndexRef == 0

\* The entries of block_index_ for bids outside Bids: the i-th holds one page
\* at the i-th page after the superblocks; no modelled call names their bids.
BaseEnd(n) == 2 * SUPER_BLOCK_SIZE + n * PAGE_SIZE

(***************************************************************************)
(* The file on disk.                                                       *)
(***************************************************************************)
NPages(size) == PAGE_ROUND_UP(size) \div PAGE_SIZE

\* AIOFile::write / async_write of a page-rounded buffer at offset
WritePages(dsk, offset, buf) ==
    LET new == {offset + i * PAGE_SIZE : i \in 0..(NPages(buf.size) - 1)}
    IN [o \in DOMAIN dsk \cup new |->
          IF o \in new THEN [buf |-> buf, page |-> (o - offset) \div PAGE_SIZE]
          ELSE dsk[o]]

\* AIOFile::truncate
TruncatePages(dsk, len) == [o \in {x \in DOMAIN dsk : x < len} |-> dsk[o]]

\* AIOFile::read of PAGE_ROUND_UP(size) bytes at offset: whether it succeeds
ReadOk(dsk, fsize, offset, size) == offset + PAGE_ROUND_UP(size) <= fsize

\* the bytes it reads: the buffer stored there, Garbage if the pages do not
\* hold one buffer from its first page on
ReadPages(dsk, offset, size) ==
    LET pages == {offset + i * PAGE_SIZE : i \in 0..(NPages(size) - 1)}
    IN IF /\ pages \subseteq DOMAIN dsk
          /\ \A o \in pages : /\ dsk[o].buf = dsk[offset].buf
                              /\ dsk[o].page = (o - offset) \div PAGE_SIZE
       THEN dsk[offset].buf
       ELSE Garbage

(***************************************************************************)
(* Superblock images (write_superblock / read_superblock).                 *)
(***************************************************************************)
SuperBlockImage(s) ==
    [magic |-> s.magic_number, compress |-> s.compress,
     has_index |-> s.index_block_meta # <<>>,
     meta |-> IF s.index_block_meta # <<>> THEN s.index_block_meta[1]
              ELSE NewBlockMeta]

\* a superblock page overwritten with zeros
ZeroImage == [magic |-> 0, compress |-> 0, has_index |-> FALSE, meta |-> NewBlockMeta]

\* Layout::read_superblock into a new SuperBlock: every field is taken as it
\* is read, none is validated; the reads run past no buffer end.
read_superblock(img) ==
    [magic_number |-> img.magic, compress |-> img.compress,
     index_block_meta |-> IF img.has_index THEN <<img.meta>> ELSE <<>>]

(***************************************************************************)
(* Index block (get_index_size / write_index / read_index).                *)
(***************************************************************************)
get_index_size(bi, nb) == 4 + (Cardinality(DOMAIN bi) + nb) * (8 + BLOCK_META_SIZE)

RECURSIVE SortedSeq(_)
SortedSeq(S) ==
    IF S = {} THEN <<>>
    ELSE LET m == CHOOSE x \in S : \A y \in S : x <= y
         IN <<m>> \o SortedSeq(S \ {m})

\* write_index: the count, then bid and meta of each entry in bid order
write_index(bi, nb) ==
    LET bids == SortedSeq(DOMAIN bi)
        entries == [i \in 1..Len(bids) |-> <<bids[i], bi[bids[i]]>>]
    IN Buffer("raw", "idx", 0, Len(bids) + nb, entries,
              4 + (Len(bids) + nb) * (8 + BLOCK_META_SIZE),
              4 + (Len(bids) + nb) * (8 + BLOCK_META_SIZE))

\* read_index: block_index_[bid] = meta for each entry read
read_index(buf) ==
    [b \in {buf.entries[i][1] : i \in 1..Len(buf.entries)} |->
        buf.entries[CHOOSE i \in 1..Len(buf.entries) : buf.entries[i][1] = b][2]]

(***************************************************************************)
(* Layout::read_block: [ok, block].  A block whose bytes do not inflate to *)
(* what the meta says is reported as Garbage.                              *)
(***************************************************************************)
read_block(compress, dsk, fsize, meta) ==
    IF ~ReadOk(dsk, fsize, meta.offset, meta.compressed_size)
    THEN [ok |-> FALSE, block |-> Garbage]
    ELSE [ok |-> TRUE,
          block |-> uncompress_data(compress,
                                    ReadPages(dsk, meta.offset, meta.compressed_size),
                                    meta.compressed_size, meta.inflated_size)]

(***************************************************************************)
(* Layout::init(create = false), lines 77-104, on the file on disk.        *)
(***************************************************************************)
\* init_block_offset_index: the entries of block_index_ in bid order, then
\* the index block's meta
init_block_offset_index(bi, s) ==
    LET keys == {bi[b].offset : b \in DOMAIN bi}
                \cup (IF s.index_block_meta # <<>>
                      THEN {s.index_block_meta[1].offset} ELSE {})
    IN [o \in keys |->
          IF s.index_block_meta # <<>> /\ s.index_block_meta[1].offset = o
          THEN IndexRef
          ELSE CHOOSE b \in DOMAIN bi :
                  /\ bi[b].offset = o
                  /\ \A c \in DOMAIN bi : bi[c].offset = o => c <= b]

\* a loop of init_holes that finds the extents and adds no hole
RECURSIVE init_holes_loop_dense(_, _, _, _, _, _)
init_holes_loop_dense(keys, i, last, hl, boi, metas) ==
    IF i > Len(keys) THEN [list |-> hl, failed |-> FALSE, last |-> last]
    ELSE LET m == metas[boi[keys[i]]]
         IN init_holes_loop_dense(keys, i + 1,
                                  m.offset + PAGE_ROUND_UP(m.compressed_size),
                                  hl, boi, metas)

\* the loop of init_holes over the entries in offset order; offset_ is still
\* 0 there, so add_hole absorbs nothing
RECURSIVE init_holes_loop(_, _, _, _, _, _)
init_holes_loop(keys, i, last, hl, boi, metas) ==
    IF i > Len(keys) THEN [list |-> hl, failed |-> FALSE, last |-> last]
    ELSE LET m == metas[boi[keys[i]]]
             r == IF m.offset > last
                  THEN add_hole_list(hl, Hole(last, m.offset - last))
                  ELSE [list |-> hl, failed |-> FALSE]
         IN IF r.failed THEN [list |-> hl, failed |-> TRUE, last |-> last]
            ELSE init_holes_loop(keys, i + 1, m.offset + PAGE_ROUND_UP(m.compressed_size),
                                 r.list, boi, metas)

\* load_superblock: the first copy, the second when reading the first
\* fails.  fail: 0, 1 reading the first copy fails, 2 reading both copies
\* fails, 3 reading the index block fails.
load_superblock(copies, fail) == read_superblock(IF fail = 1 THEN copies[2] ELSE copies[1])

\* read_index on bytes that are no serialized index: the blocks of the
\* modelled callers begin with four bytes that spell a count larger than any
\* index block holds, so the entries the buffer has room for are installed
\* and then a read runs past its end
read_index_stray(inflated_size) ==
    IF inflated_size < 4 THEN 0 ELSE (inflated_size - 4) \div (8 + BLOCK_META_SIZE)

\* [ok, aborted, and the members of the layout]; cur: superblock_ as it is
init_open(compress, copies, dsk, fsize, fail, cur) ==
    LET s == load_superblock(copies, fail)
        hasIdx == s.index_block_meta # <<>>
        m == IF hasIdx THEN s.index_block_meta[1] ELSE NewBlockMeta
        unread == [ok |-> FALSE, aborted |-> FALSE, superblock |-> cur,
                   block_index |-> << >>, nbase |-> 0, block_offset_index |-> << >>,
                   hole_list |-> <<>>, offset |-> 0]
        rb == IF hasIdx /\ fail # 3 THEN read_block(compress, dsk, fsize, m)
              ELSE [ok |-> FALSE, block |-> Garbage]
        parsed == rb.block # Garbage /\ rb.block.kind = "idx"
        bi == IF hasIdx /\ parsed THEN read_index(rb.block) ELSE << >>
        nb == IF hasIdx /\ parsed
              THEN rb.block.count - Len(rb.block.entries) ELSE 0
        boi == init_block_offset_index(bi, s)
        metas == [r \in {IndexRef} \cup DOMAIN bi |->
                    IF r = IndexRef THEN m ELSE bi[r]]
        keys == SortedSeq(DOMAIN boi)
        ih == init_holes_loop(keys, 1, BaseEnd(nb), <<>>, boi, metas)
        off == IF Len(keys) > 0 \/ nb > 0 THEN ih.last ELSE 2 * SUPER_BLOCK_SIZE
    IN  \* lines 77-84
        IF fsize < 2 * SUPER_BLOCK_SIZE \/ fail = 2 THEN unread
        \* lines 85-88
        ELSE IF s.compress # compress \/ (hasIdx /\ ~rb.ok)
        THEN [unread EXCEPT !.superblock = s]
        \* read_block, lines 647-651: assert(false) when uncompress_data fails
        ELSE IF hasIdx /\ compress # kNoCompress /\ rb.block = Garbage
        THEN [unread EXCEPT !.superblock = s, !.aborted = TRUE]
        \* read_index returns false, lines 515-522
        ELSE IF hasIdx /\ ~parsed
        THEN [unread EXCEPT !.superblock = s,
                            !.nbase = read_index_stray(m.inflated_size)]
        ELSE [ok |-> ~ih.failed,
              aborted |-> ih.failed,
              superblock |-> s, block_index |-> bi, nbase |-> nb,
              block_offset_index |-> boi, hole_list |-> ih.list, offset |-> off]

(***************************************************************************)
(* Initial state: a Layout constructed (lines 29-40) over an empty file,   *)
(* or over a file that holds NBase one-page blocks and their index block,  *)
(* written with Snappy compression; options_ is the caller's choice.       *)
(***************************************************************************)
NoReq == [pc |-> "free", bid |-> 0, block |-> 0, meta |-> NewBlockMeta,
          buffer |-> Garbage, succ |-> FALSE, hole |-> Hole(0, 0), cb |-> <<>>,
          rel |-> 0, par |-> FALSE, pre |-> <<>>]

NoDel == [pc |-> "idle", bid |-> 0, hole |-> Hole(0, 0), pre |-> <<>>]

NoFl == [pc |-> "idle", size |-> 0, buf |-> Garbage, csize |-> 0, offset |-> 0,
         hole |-> Hole(0, 0), failed |-> FALSE, closing |-> FALSE,
         prior |-> {}, result |-> <<>>, alone |-> FALSE, pre |-> <<>>,
         mem |-> <<>>, orphan |-> <<>>]

\* log: what was done with the callback of the request, in order
NoRd == [pc |-> "free", n |-> 0, bid |-> 0, meta |-> NewBlockMeta,
         succ |-> FALSE, block |-> Garbage, log |-> <<>>]

\* The stored file was written by a layout with Snappy compression.
StoredIndex == compress_data(kSnappyCompress, write_index(<< >>, NBase))

StoredMeta ==
    BlockMeta(BaseEnd(NBase), write_index(<< >>, NBase).size, StoredIndex[2])

StoredImage == [magic |-> MAGIC, compress |-> kSnappyCompress, has_index |-> TRUE,
                meta |-> StoredMeta]

Init ==
    /\ options_ \in {kNoCompress, kSnappyCompress}
    /\ \/ /\ sb = <<ZeroImage, ZeroImage>>
          /\ disk = << >>
          /\ file_size = 0
          /\ committed = <<Garbage, Garbage>>
       \/ /\ sb = <<StoredImage, StoredImage>>
          /\ disk = WritePages(<< >>, BaseEnd(NBase), StoredIndex[1])
          /\ file_size = BaseEnd(NBase) + PAGE_ROUND_UP(StoredIndex[2])
          /\ committed = <<StoredIndex[1], StoredIndex[1]>>
    /\ offset_ = 0
    /\ length_ = file_size
    /\ fly_writes_ = 0
    /\ block_index_ = << >>
    /\ nbase = 0
    /\ block_offset_index_ = << >>
    /\ superblock_ = [magic_number |-> MAGIC, compress |-> kNoCompress,
                      index_block_meta |-> <<>>]
    /\ hole_list_ = <<>>
    /\ phase = "new"
    /\ req = [r \in Reqs |-> NoReq]
    /\ del = NoDel
    /\ fl = NoFl
    /\ budget = [writes |-> 0, deletes |-> 0, flushes |-> 0, fails |-> 0,
                 reopens |-> 0, zeroed |-> FALSE, used |-> 0, io |-> <<>>]
    /\ last_ok = [b \in Bids |-> <<>>]
    /\ expect = [b \in Bids |-> <<>>]
    /\ idx_bytes = Garbage
    /\ fly_reads_ = 0
    /\ rd = NoRd
    /\ held = [m \in Mutexes |-> 0]
    /\ walk = [t \in Threads |-> NoWalk]

MayFail == budget.fails < MaxFails

\* the calls in progress: async_write and async_read up to the end of their
\* completion handlers, delete_block, flush
Active == Cardinality({r \in Reqs : req[r].pc \notin {"free", "done"}})
          + (IF del.pc = "idle" THEN 0 ELSE 1)
          + (IF fl.pc = "idle" THEN 0 ELSE 1)
          + (IF rd.pc \in {"free", "done"} THEN 0 ELSE 1)

Calls == budget.writes + budget.deletes + budget.flushes + rd.n

\* the modelled callers write, delete and flush through the first layout
\* over the file; the layout that reopens the file is read.  Nothing is
\* called on a layout whose destructor runs.
MayCall == /\ phase = "open"
           /\ ~fl.closing
           /\ Active < MaxThreads
           /\ budget.reopens = 0
           /\ Calls < MaxCalls

Fail(b) == [b EXCEPT !.fails = @ + 1]

\* block ids are interchangeable: the callers name them in the order of
\* their first use
MayName(bid) == bid <= budget.used + 1

\* a call begins: no request in progress runs alone any more
Joined(rq) == [r \in Reqs |-> [rq[r] EXCEPT !.pre = <<>>]]

\* a call begins: a delete_block in progress does not run alone any more,
\* one that has returned is no longer the last call
Parted(d) == IF d.pc = "idle" THEN NoDel ELSE [d EXCEPT !.pre = <<>>]

\* a write or a delete begins: a flush that has returned is no longer the
\* last call, one in progress does not run alone any more
Past(f) == IF f.pc = "idle" THEN NoFl
           ELSE [f EXCEPT !.alone = FALSE, !.pre = <<>>]

\* the layout is gone: what its callers did is forgotten with it
Gone(b) == [b EXCEPT !.writes = 0, !.deletes = 0, !.flushes = 0, !.used = 0,
                     !.reopens = @ + 1, !.io = <<>>]

(***************************************************************************)
(* Layout::init(create = true), lines 63-75 and 103: flush_superblock,     *)
(* then the file end.  fail is 0, or the superblock write that fails.      *)
(***************************************************************************)
InitCreate(fail) ==
    /\ phase = "new"
    /\ file_size = 0
    /\ fail # 0 => MayFail
    /\ LET s == [superblock_ EXCEPT !.compress = options_, !.index_block_meta = <<>>]
       IN /\ superblock_' = s
          /\ sb' = CASE fail = 1 -> sb
                     [] fail = 2 -> <<SuperBlockImage(s), sb[2]>>
                     [] OTHER -> <<SuperBlockImage(s), SuperBlockImage(s)>>
          /\ file_size' = CASE fail = 1 -> file_size
                            [] fail = 2 -> SUPER_BLOCK_SIZE
                            [] OTHER -> 2 * SUPER_BLOCK_SIZE
    /\ IF fail = 0
       THEN /\ offset_' = 2 * SUPER_BLOCK_SIZE
            /\ length_' = 2 * SUPER_BLOCK_SIZE
            /\ phase' = "open"
            /\ budget' = budget
       ELSE /\ UNCHANGED <<offset_, length_>>
            /\ phase' = "failed"
            /\ budget' = Fail(budget)
    /\ UNCHANGED <<options_, readVars, lockVars, fly_writes_, block_index_, nbase, block_offset_index_,
                   hole_list_, disk, req, del, fl, ghostVars>>

(***************************************************************************)
(* A new Layout over the file on disk and init(create = false), lines      *)
(* 77-104: first use of a stored file, or reopen after a close or a crash. *)
(* fail: 0, or the read that fails (see load_superblock).                  *)
(***************************************************************************)
InitOpen(fail) ==
    /\ \/ phase = "new" /\ file_size > 0
       \/ phase \in {"closed", "crashed"}
    /\ fail # 0 => MayFail
    /\ LET r == init_open(options_, sb, disk, file_size, fail, superblock_)
       IN /\ phase' = IF r.ok THEN "open" ELSE IF r.aborted THEN "aborted" ELSE "failed"
          /\ superblock_' = r.superblock
          /\ block_index_' = r.block_index
          /\ nbase' = r.nbase
          /\ block_offset_index_' = r.block_offset_index
          /\ hole_list_' = r.hole_list
          /\ offset_' = r.offset
          /\ fly_writes_' = 0
          \* truncate
          /\ IF r.ok /\ r.offset < file_size
             THEN /\ length_' = r.offset
                  /\ file_size' = r.offset
                  /\ disk' = TruncatePages(disk, r.offset)
             ELSE /\ length_' = file_size
                  /\ UNCHANGED <<file_size, disk>>
          /\ idx_bytes' = IF fail = 1 THEN committed[2] ELSE committed[1]
    /\ budget' = [(IF fail # 0 THEN Fail(budget) ELSE budget) EXCEPT !.io = <<fail>>]
    /\ UNCHANGED <<options_, readVars, lockVars, sb, req, del, fl, last_ok, expect, committed>>

(***************************************************************************)
(* Layout::get_offset, the part under mtx_ (lines 773-783): the new        *)
(* <<offset_, length_>>; the offset handed out is the old offset_.         *)
(***************************************************************************)
get_offset_tail(off_, len_, size) == <<off_ + size, Max(len_, off_ + size)>>

(***************************************************************************)
(* Layout::set_block_meta, the part under block_index_mtx_ (lines          *)
(* 590-605): [index, offset_index, has_hole, hole]                         *)
(***************************************************************************)
EraseKey(f, k) == [x \in DOMAIN f \ {k} |-> f[x]]

SetKey(f, k, v) == [x \in DOMAIN f \cup {k} |-> IF x = k THEN v ELSE f[x]]

\* a faulty set_block_meta, which installs nothing and frees nothing
set_block_meta_lost(bi, boi, bid, meta) ==
    [index |-> bi, offset_index |-> boi, has_hole |-> FALSE, hole |-> Hole(0, 0)]

set_block_meta(bi, boi, bid, meta) ==
    LET had == bid \in DOMAIN bi
        erased == IF had THEN EraseKey(boi, bi[bid].offset) ELSE boi
    IN [index |-> SetKey(bi, bid, meta),
        offset_index |-> SetKey(erased, meta.offset, bid),
        has_hole |-> had,
        hole |-> IF had THEN Hole(bi[bid].offset, PAGE_ROUND_UP(bi[bid].compressed_size))
                 ELSE Hole(0, 0)]

\* del_block_meta that leaves the entry of the offset index in place
del_block_meta_stale(bi, boi, bid) ==
    [index |-> EraseKey(bi, bid),
     offset_index |-> boi,
     hole |-> Hole(bi[bid].offset, PAGE_ROUND_UP(bi[bid].compressed_size))]

(***************************************************************************)
(* Layout::del_block_meta, the part under block_index_mtx_ (lines          *)
(* 614-629), for a bid that is present.                                    *)
(***************************************************************************)
del_block_meta(bi, boi, bid) ==
    [index |-> EraseKey(bi, bid),
     offset_index |-> EraseKey(boi, bi[bid].offset),
     hole |-> Hole(bi[bid].offset, PAGE_ROUND_UP(bi[bid].compressed_size))]

(***************************************************************************)
(* async_write(bid, block, cb), lines 194-220.                             *)
(***************************************************************************)
NextReq == budget.writes + 1

\* the callback of a request is executed with status and then deleted
Done(q, status) == [q EXCEPT !.pc = "done", !.cb = Append(q.cb, status),
                             !.rel = @ + 1,
                             !.buffer = Garbage, !.hole = Hole(0, 0), !.block = 0]

\* lines 199-211, get_hole under hole_list_mtx_
AsyncWrite(bid) ==
    /\ MayCall
    /\ MayName(bid)
    /\ budget.writes < MaxWrites
    /\ LET d == NextReq
           c == compress_data(options_, Block(d))
           size == PAGE_ROUND_UP(c[2])
           gh == get_hole(hole_list_, size)
       IN /\ hole_list_' = gh.list
          /\ req' = [Joined(req) EXCEPT ![NextReq] =
                [NoReq EXCEPT !.pc = IF gh.found THEN "reserved" ELSE "get_offset",
                              !.bid = bid,
                              !.block = d,
                              !.buffer = c[1],
                              !.meta = BlockMeta(gh.offset, Block(d).size, c[2]),
                              !.par = Active > 0,
                              !.pre = IF Active = 0
                                      THEN <<hole_list_, offset_, block_index_>>
                                      ELSE <<>>]]
    /\ budget' = [budget EXCEPT !.writes = @ + 1, !.used = Max(@, bid)]
    /\ del' = Parted(del)
    /\ fl' = Past(fl)
    /\ UNCHANGED <<options_, readVars, lockVars, offset_, length_, fly_writes_, block_index_, nbase,
                   block_offset_index_, superblock_, diskVars, phase, ghostVars>>

\* lines 773-783 of get_offset, under mtx_
WriteGetOffset(r) ==
    /\ phase = "open"
    /\ req[r].pc = "get_offset"
    /\ LET t == get_offset_tail(offset_, length_,
                                PAGE_ROUND_UP(req[r].meta.compressed_size))
       IN /\ offset_' = t[1]
          /\ length_' = t[2]
    /\ req' = [req EXCEPT ![r].pc = "reserved", ![r].meta.offset = offset_]
    /\ UNCHANGED <<options_, readVars, lockVars, fly_writes_, block_index_, nbase, block_offset_index_,
                   superblock_, hole_list_, diskVars, phase, del, fl, budget,
                   ghostVars>>

\* lines 215-219: fly_writes_ ++ and the submission
WriteSubmit(r) ==
    /\ phase = "open"
    /\ req[r].pc = "reserved"
    /\ fly_writes_' = fly_writes_ + 1
    /\ req' = [req EXCEPT ![r].pc = "inflight"]
    /\ UNCHANGED <<options_, readVars, lockVars, offset_, length_, block_index_, nbase,
                   block_offset_index_, superblock_, hole_list_, diskVars, phase,
                   del, fl, budget, ghostVars>>

(***************************************************************************)
(* The I/O completes and aio_complete_handler runs handle_async_write,     *)
(* lines 222-245, up to the end of its first critical section.             *)
(***************************************************************************)
WriteComplete(r, succ) ==
    /\ phase = "open"
    /\ req[r].pc = "inflight"
    /\ ~succ => MayFail
    /\ fly_writes_' = fly_writes_ - 1
    /\ IF succ
       THEN /\ disk' = WritePages(disk, req[r].meta.offset, req[r].buffer)
            /\ file_size' = Max(file_size,
                                req[r].meta.offset
                                + PAGE_ROUND_UP(req[r].meta.compressed_size))
            /\ req' = [req EXCEPT ![r].pc = "set_block_meta", ![r].succ = TRUE]
            /\ budget' = budget
       ELSE /\ UNCHANGED <<disk, file_size>>
            /\ req' = [req EXCEPT ![r].pc = "add_hole", ![r].succ = FALSE,
                          ![r].hole = Hole(req[r].meta.offset,
                                           PAGE_ROUND_UP(req[r].meta.compressed_size))]
            /\ budget' = Fail(budget)
    /\ UNCHANGED <<options_, readVars, lockVars, offset_, length_, block_index_, nbase,
                   block_offset_index_, superblock_, hole_list_, sb, phase, del, fl,
                   ghostVars>>

\* line 231: set_block_meta under block_index_mtx_
WriteSetMeta(r) ==
    /\ phase = "open"
    /\ req[r].pc = "set_block_meta"
    /\ LET s == set_block_meta(block_index_, block_offset_index_,
                               req[r].bid, req[r].meta)
       IN /\ block_index_' = s.index
          /\ block_offset_index_' = s.offset_index
          /\ req' = [req EXCEPT ![r] =
                        IF s.has_hole
                        THEN [req[r] EXCEPT !.pc = "add_hole", !.hole = s.hole]
                        ELSE Done(req[r], TRUE)]
    /\ last_ok' = [last_ok EXCEPT ![req[r].bid] = <<Block(req[r].block)>>]
    /\ UNCHANGED <<options_, readVars, lockVars, offset_, length_, fly_writes_, nbase, superblock_,
                   hole_list_, diskVars, phase, del, fl, budget, expect, committed,
                   idx_bytes>>

\* add_hole (line 234 or 608), lines 870-875 under mtx_
WriteAddHole(r) ==
    /\ phase = "open"
    /\ req[r].pc = "add_hole"
    /\ IF add_hole_absorbs(offset_, req[r].hole)
       THEN /\ offset_' = req[r].hole.offset
            /\ req' = [req EXCEPT ![r] = Done(req[r], req[r].succ)]
       ELSE /\ offset_' = offset_
            /\ req' = [req EXCEPT ![r].pc = "add_hole_list"]
    /\ UNCHANGED <<options_, readVars, lockVars, length_, fly_writes_, block_index_, nbase,
                   block_offset_index_, superblock_, hole_list_, diskVars, phase,
                   del, fl, budget, ghostVars>>

\* add_hole, lines 877-937 under hole_list_mtx_
WriteAddHoleList(r) ==
    /\ phase = "open"
    /\ req[r].pc = "add_hole_list"
    /\ LET a == add_hole_list(hole_list_, req[r].hole)
       IN IF a.failed
          THEN /\ phase' = "aborted"
               /\ UNCHANGED <<hole_list_, req>>
          ELSE /\ hole_list_' = a.list
               /\ req' = [req EXCEPT ![r] = Done(req[r], req[r].succ)]
               /\ phase' = phase
    /\ UNCHANGED <<options_, readVars, lockVars, offset_, length_, fly_writes_, block_index_, nbase,
                   block_offset_index_, superblock_, diskVars, del, fl, budget,
                   ghostVars>>

(***************************************************************************)
(* delete_block(bid), lines 247-256.                                       *)
(***************************************************************************)
\* line 250: get_block_meta under block_index_mtx_
DeleteBlock(bid) ==
    /\ MayCall
    /\ del.pc = "idle"
    /\ MayName(bid)
    /\ budget.deletes < MaxDeletes
    /\ budget' = [budget EXCEPT !.deletes = @ + 1, !.used = Max(@, bid)]
    /\ req' = Joined(req)
    /\ del' = IF bid \in DOMAIN block_index_
              THEN [NoDel EXCEPT !.pc = "del_block_meta", !.bid = bid,
                                 !.pre = IF Active = 0
                                         THEN <<hole_list_, offset_>> ELSE <<>>]
              ELSE NoDel
    /\ fl' = Past(fl)
    /\ UNCHANGED <<options_, readVars, lockVars, memVars, diskVars, phase, ghostVars>>

\* line 255: del_block_meta under block_index_mtx_
DeleteMeta ==
    /\ phase = "open"
    /\ del.pc = "del_block_meta"
    /\ IF del.bid \in DOMAIN block_index_
       THEN LET d == del_block_meta(block_index_, block_offset_index_, del.bid)
            IN /\ block_index_' = d.index
               /\ block_offset_index_' = d.offset_index
               /\ del' = [del EXCEPT !.pc = "add_hole", !.hole = d.hole]
               /\ last_ok' = [last_ok EXCEPT ![del.bid] = <<>>]
       ELSE /\ del' = NoDel
            /\ UNCHANGED <<block_index_, block_offset_index_, last_ok>>
    /\ UNCHANGED <<options_, readVars, lockVars, offset_, length_, fly_writes_, nbase, superblock_,
                   hole_list_, diskVars, phase, req, fl, budget, expect, committed,
                   idx_bytes>>

\* add_hole (line 630), lines 870-875 under mtx_
DeleteAddHole ==
    /\ phase = "open"
    /\ del.pc = "add_hole"
    /\ IF add_hole_absorbs(offset_, del.hole)
       THEN /\ offset_' = del.hole.offset
            /\ del' = [del EXCEPT !.pc = "idle"]
       ELSE /\ offset_' = offset_
            /\ del' = [del EXCEPT !.pc = "add_hole_list"]
    /\ UNCHANGED <<options_, readVars, lockVars, length_, fly_writes_, block_index_, nbase,
                   block_offset_index_, superblock_, hole_list_, diskVars, phase,
                   req, fl, budget, ghostVars>>

\* add_hole, lines 877-937 under hole_list_mtx_
DeleteAddHoleList ==
    /\ phase = "open"
    /\ del.pc = "add_hole_list"
    /\ LET a == add_hole_list(hole_list_, del.hole)
       IN IF a.failed
          THEN /\ phase' = "aborted"
               /\ UNCHANGED <<hole_list_, del>>
          ELSE /\ hole_list_' = a.list
               /\ del' = [del EXCEPT !.pc = "idle"]
               /\ phase' = phase
    /\ UNCHANGED <<options_, readVars, lockVars, offset_, length_, fly_writes_, block_index_, nbase,
                   block_offset_index_, superblock_, diskVars, req, fl, budget,
                   ghostVars>>

(***************************************************************************)
(* flush(), lines 258-273, with flush_index (405-464), flush_superblock    *)
(* (346-379) and truncate (283-290).  closing: called by ~Layout.          *)
(***************************************************************************)
Submitted == {"inflight", "set_block_meta", "add_hole", "add_hole_list", "done"}

Quiet == /\ \A r \in Reqs : req[r].pc \in {"free", "done"}
         /\ del.pc = "idle"

\* the bytes on disk of the index block that the first superblock refers to
StoredIndexBytes ==
    IF sb[1].has_index
    THEN ReadPages(disk, sb[1].meta.offset, sb[1].meta.compressed_size)
    ELSE Garbage

\* flush returns res; the destructor goes on after its flush
Returned(res) ==
    [NoFl EXCEPT !.pc = IF fl.closing THEN "destroy" ELSE "idle",
                 !.closing = fl.closing,
                 !.result = <<res>>,
                 !.prior = fl.prior,
                 !.alone = fl.alone,
                 !.pre = fl.pre]

FlushCall(closing) ==
    /\ MayCall
    /\ fl.pc = "idle"
    /\ budget.flushes < MaxFlushes
    /\ closing => Quiet /\ budget.reopens < MaxReopens
    /\ fl' = [NoFl EXCEPT !.pc = "wait", !.closing = closing,
                          !.prior = {r \in Reqs : req[r].pc \in Submitted},
                          !.alone = (Active = 0),
                          !.pre = IF Active = 0 /\ fl.alone /\ fl.result = <<TRUE>>
                                  THEN <<sb, file_size, StoredIndexBytes>>
                                  ELSE <<>>]
    /\ budget' = [budget EXCEPT !.flushes = @ + 1]
    /\ req' = Joined(req)
    /\ del' = Parted(del)
    /\ expect' = IF closing THEN last_ok ELSE expect
    /\ UNCHANGED <<options_, readVars, lockVars, memVars, diskVars, phase, last_ok,
                   committed, idx_bytes>>

\* lines 260-267: the wait loop ends when fly_writes_ is 0
FlushWait ==
    /\ phase = "open"
    /\ fl.pc = "wait"
    /\ fly_writes_ = 0
    /\ fl' = [fl EXCEPT !.pc = "get_index_size"]
    /\ UNCHANGED <<options_, readVars, lockVars, memVars, diskVars, phase, req, del, budget, ghostVars>>

\* line 407: get_index_size under block_index_mtx_
FlushIndexSize ==
    /\ phase = "open"
    /\ fl.pc = "get_index_size"
    /\ fl' = [fl EXCEPT !.pc = "write_index",
                        !.size = get_index_size(block_index_, nbase)]
    /\ UNCHANGED <<options_, readVars, lockVars, memVars, diskVars, phase, req, del, budget, ghostVars>>

\* lines 415-433: write_index under block_index_mtx_, the assert, compress_data
FlushWriteIndex ==
    /\ phase = "open"
    /\ fl.pc = "write_index"
    /\ LET inflated == write_index(block_index_, nbase)
           c == compress_data(options_, inflated)
       IN IF inflated.size # fl.size
          THEN /\ phase' = "aborted"
               /\ fl' = fl
          ELSE /\ phase' = phase
               /\ fl' = [fl EXCEPT !.pc = "get_hole", !.buf = c[1], !.csize = c[2]]
    /\ UNCHANGED <<options_, readVars, lockVars, memVars, diskVars, req, del, budget, ghostVars>>

\* line 435: get_offset, get_hole under hole_list_mtx_
FlushGetHole ==
    /\ phase = "open"
    /\ fl.pc = "get_hole"
    /\ LET gh == get_hole(hole_list_, PAGE_ROUND_UP(fl.csize))
       IN /\ hole_list_' = gh.list
          /\ fl' = [fl EXCEPT !.pc = IF gh.found THEN "write_data" ELSE "get_offset",
                              !.offset = gh.offset]
    /\ UNCHANGED <<options_, readVars, lockVars, offset_, length_, fly_writes_, block_index_, nbase,
                   block_offset_index_, superblock_, diskVars, phase, req, del,
                   budget, ghostVars>>

\* line 435: get_offset, lines 773-783 under mtx_
FlushGetOffset ==
    /\ phase = "open"
    /\ fl.pc = "get_offset"
    /\ LET t == get_offset_tail(offset_, length_, PAGE_ROUND_UP(fl.csize))
       IN /\ offset_' = t[1]
          /\ length_' = t[2]
    /\ fl' = [fl EXCEPT !.pc = "write_data", !.offset = offset_]
    /\ UNCHANGED <<options_, readVars, lockVars, fly_writes_, block_index_, nbase, block_offset_index_,
                   superblock_, hole_list_, diskVars, phase, req, del, budget,
                   ghostVars>>

\* the size of the hole flush_index adds when the index write fails (line 438)
failed_index_hole_size(size, compressed_size) == PAGE_ROUND_UP(size)

\* line 436: write_data of the index block, lines 684-688: fly_writes_ ++
\* under mtx_ before the write
FlushWriteDataBegin ==
    /\ phase = "open"
    /\ fl.pc = "write_data"
    /\ fly_writes_' = fly_writes_ + 1
    /\ fl' = [fl EXCEPT !.pc = "write_data_io"]
    /\ UNCHANGED <<options_, readVars, lockVars, offset_, length_, block_index_, nbase,
                   block_offset_index_, superblock_, hole_list_, diskVars, phase,
                   req, del, budget, ghostVars>>

\* lines 436-449: the write of the index block completes (write_data, lines
\* 690-701: fly_writes_ --); on success the old index block is to become a
\* hole, or the superblock gets a new BlockMeta
FlushWriteData(succ) ==
    /\ phase = "open"
    /\ fl.pc = "write_data_io"
    /\ ~succ => MayFail
    /\ fly_writes_' = fly_writes_ - 1
    /\ IF succ
       THEN /\ disk' = WritePages(disk, fl.offset, fl.buf)
            /\ file_size' = Max(file_size, fl.offset + PAGE_ROUND_UP(fl.csize))
            /\ budget' = budget
            /\ IF superblock_.index_block_meta # <<>>
               THEN /\ fl' = [fl EXCEPT !.pc = "add_hole",
                                 !.hole = Extent(superblock_.index_block_meta[1])]
                    /\ superblock_' = superblock_
               ELSE /\ fl' = [fl EXCEPT !.pc = "offset_index"]
                    /\ superblock_' = [superblock_ EXCEPT
                                          !.index_block_meta = <<NewBlockMeta>>]
       ELSE /\ UNCHANGED <<disk, file_size, superblock_>>
            /\ budget' = Fail(budget)
            /\ fl' = [fl EXCEPT !.pc = "add_hole", !.failed = TRUE,
                         !.hole = Hole(fl.offset,
                                       failed_index_hole_size(fl.size, fl.csize))]
    /\ UNCHANGED <<options_, readVars, lockVars, offset_, length_, block_index_, nbase,
                   block_offset_index_, hole_list_, sb, phase, req, del, ghostVars>>

\* add_hole (line 438 or 445), lines 870-875 under mtx_
FlushAddHole ==
    /\ phase = "open"
    /\ fl.pc = "add_hole"
    /\ IF add_hole_absorbs(offset_, fl.hole)
       THEN /\ offset_' = fl.hole.offset
            /\ fl' = IF fl.failed THEN Returned(FALSE)
                     ELSE [fl EXCEPT !.pc = "offset_index"]
       ELSE /\ offset_' = offset_
            /\ fl' = [fl EXCEPT !.pc = "add_hole_list"]
    /\ UNCHANGED <<options_, readVars, lockVars, length_, fly_writes_, block_index_, nbase,
                   block_offset_index_, superblock_, hole_list_, diskVars, phase,
                   req, del, budget, ghostVars>>

\* add_hole, lines 877-937 under hole_list_mtx_
FlushAddHoleList ==
    /\ phase = "open"
    /\ fl.pc = "add_hole_list"
    /\ LET a == add_hole_list(hole_list_, fl.hole)
       IN IF a.failed
          THEN /\ phase' = "aborted"
               /\ UNCHANGED <<hole_list_, fl>>
          ELSE /\ hole_list_' = a.list
               /\ fl' = IF fl.failed THEN Returned(FALSE)
                        ELSE [fl EXCEPT !.pc = "offset_index"]
               /\ phase' = phase
    /\ UNCHANGED <<options_, readVars, lockVars, offset_, length_, fly_writes_, block_index_, nbase,
                   block_offset_index_, superblock_, diskVars, req, del, budget,
                   ghostVars>>

\* lines 451-456 under block_index_mtx_
FlushOffsetIndex ==
    /\ phase = "open"
    /\ fl.pc = "offset_index"
    /\ block_offset_index_' =
          SetKey(EraseKey(block_offset_index_, superblock_.index_block_meta[1].offset),
                 fl.offset, IndexRef)
    /\ fl' = [fl EXCEPT !.pc = "superblock1"]
    /\ UNCHANGED <<options_, readVars, lockVars, offset_, length_, fly_writes_, block_index_, nbase,
                   superblock_, hole_list_, diskVars, phase, req, del, budget,
                   ghostVars>>

\* lines 458-460, then flush_superblock up to the first write_data (line
\* 362), lines 684-688: fly_writes_ ++ under mtx_ before the write
FlushSuperblock1Begin ==
    /\ phase = "open"
    /\ fl.pc = "superblock1"
    /\ superblock_' = [superblock_ EXCEPT !.index_block_meta =
                          <<BlockMeta(fl.offset, fl.size, fl.csize)>>]
    /\ idx_bytes' = fl.buf
    /\ fly_writes_' = fly_writes_ + 1
    /\ fl' = [fl EXCEPT !.pc = "superblock1_io"]
    /\ UNCHANGED <<options_, readVars, lockVars, offset_, length_, block_index_, nbase,
                   block_offset_index_, hole_list_, diskVars, phase, req, del, budget,
                   last_ok, expect, committed>>

\* flush_superblock, lines 362-366: the write of the first copy completes
\* (write_data, lines 690-701: fly_writes_ --)
FlushSuperblock1(succ) ==
    /\ phase = "open"
    /\ fl.pc = "superblock1_io"
    /\ ~succ => MayFail
    /\ fly_writes_' = fly_writes_ - 1
    /\ IF succ
       THEN /\ sb' = [sb EXCEPT ![1] = SuperBlockImage(superblock_)]
            /\ committed' = [committed EXCEPT ![1] = idx_bytes]
            /\ fl' = [fl EXCEPT !.pc = "superblock2"]
            /\ budget' = budget
       ELSE /\ UNCHANGED <<sb, committed>>
            /\ fl' = Returned(FALSE)
            /\ budget' = Fail(budget)
    /\ UNCHANGED <<options_, readVars, lockVars, offset_, length_, block_index_, nbase,
                   block_offset_index_, superblock_, hole_list_, disk, file_size,
                   phase, req, del, last_ok, expect, idx_bytes>>

\* flush_superblock, line 370: the second write_data, lines 684-688:
\* fly_writes_ ++ under mtx_ before the write
FlushSuperblock2Begin ==
    /\ phase = "open"
    /\ fl.pc = "superblock2"
    /\ fly_writes_' = fly_writes_ + 1
    /\ fl' = [fl EXCEPT !.pc = "superblock2_io"]
    /\ UNCHANGED <<options_, readVars, lockVars, offset_, length_, block_index_, nbase,
                   block_offset_index_, superblock_, hole_list_, diskVars, phase,
                   req, del, budget, ghostVars>>

\* flush_superblock, lines 370-378: the write of the second copy completes
\* (write_data, lines 690-701: fly_writes_ --)
FlushSuperblock2(succ) ==
    /\ phase = "open"
    /\ fl.pc = "superblock2_io"
    /\ ~succ => MayFail
    /\ fly_writes_' = fly_writes_ - 1
    /\ IF succ
       THEN /\ sb' = [sb EXCEPT ![2] = SuperBlockImage(superblock_)]
            /\ committed' = [committed EXCEPT ![2] = idx_bytes]
            /\ fl' = [fl EXCEPT !.pc = "truncate"]
            /\ budget' = budget
       ELSE /\ UNCHANGED <<sb, committed>>
            /\ fl' = Returned(FALSE)
            /\ budget' = Fail(budget)
    /\ UNCHANGED <<options_, readVars, lockVars, offset_, length_, block_index_, nbase,
                   block_offset_index_, superblock_, hole_list_, disk, file_size,
                   phase, req, del, last_ok, expect, idx_bytes>>

\* Layout::truncate, lines 283-290 under mtx_: <<length_, file length, pages>>
truncate(off_, len_, fsize, dsk) ==
    IF off_ < len_ THEN <<off_, off_, TruncatePages(dsk, off_)>>
    ELSE <<len_, fsize, dsk>>

\* line 271, and flush returns true
FlushTruncate ==
    /\ phase = "open"
    /\ fl.pc = "truncate"
    /\ LET t == truncate(offset_, length_, file_size, disk)
       IN /\ length_' = t[1]
          /\ file_size' = t[2]
          /\ disk' = t[3]
    /\ fl' = Returned(TRUE)
    /\ UNCHANGED <<options_, readVars, lockVars, offset_, fly_writes_, block_index_, nbase,
                   block_offset_index_, superblock_, hole_list_, sb, phase, req, del,
                   budget, ghostVars>>

(***************************************************************************)
(* The layout object goes away: its members are those of a Layout not yet  *)
(* constructed over the file.                                              *)
(***************************************************************************)
Forget ==
    /\ offset_' = 0
    /\ length_' = 0
    /\ fly_writes_' = 0
    /\ block_index_' = << >>
    /\ nbase' = 0
    /\ block_offset_index_' = << >>
    /\ superblock_' = [magic_number |-> MAGIC, compress |-> kNoCompress,
                       index_block_meta |-> <<>>]
    /\ hole_list_' = <<>>
    /\ req' = [r \in Reqs |-> NoReq]
    /\ del' = NoDel
    /\ idx_bytes' = Garbage
    /\ fly_reads_' = 0
    /\ rd' = NoRd

\* ~Layout, lines 42-59, after its flush: assert(false) when flush failed
Destroy ==
    /\ phase = "open"
    /\ fl.pc = "destroy"
    /\ IF fl.result = <<TRUE>>
       THEN /\ phase' = "closed"
            /\ budget' = Gone(budget)
            /\ Forget
            /\ fl' = [NoFl EXCEPT !.mem = <<hole_list_, offset_>>]
            /\ UNCHANGED <<last_ok, expect>>
       ELSE /\ phase' = "aborted"
            /\ UNCHANGED <<memVars, req, del, fl, budget, last_ok, expect,
                           idx_bytes, readVars>>
    /\ UNCHANGED <<options_, lockVars, diskVars, committed>>

\* the extent of the index block that flush_index has written (line 436) and
\* that no superblock on disk refers to yet (lines 443-460, and flush_superblock
\* up to its first write)
Orphan(f) ==
    IF ~f.failed /\ f.pc \in {"add_hole", "add_hole_list", "offset_index",
                              "superblock1", "superblock1_io"}
    THEN <<Hole(f.offset, PAGE_ROUND_UP(f.csize))>>
    ELSE <<>>

\* The process stops at any point; what is on disk stays.
Crash ==
    /\ phase = "open"
    /\ budget.reopens < MaxReopens
    /\ phase' = "crashed"
    /\ budget' = Gone(budget)
    /\ Forget
    /\ fl' = [NoFl EXCEPT !.orphan = Orphan(fl)]
    /\ last_ok' = [b \in Bids |-> <<>>]
    /\ expect' = [b \in Bids |-> <<>>]
    /\ UNCHANGED <<options_, lockVars, diskVars, committed>>

\* Bytes [0, SUPER_BLOCK_SIZE) of the closed file are overwritten with zeros.
ZeroFirstSuperblock ==
    /\ phase = "closed"
    /\ ~budget.zeroed
    /\ sb' = [sb EXCEPT ![1] = ZeroImage]
    /\ committed' = [committed EXCEPT ![1] = Garbage]
    /\ budget' = [budget EXCEPT !.zeroed = TRUE]
    /\ UNCHANGED <<options_, readVars, lockVars, memVars, disk, file_size, phase, req, del, fl,
                   last_ok, expect, idx_bytes>>

(***************************************************************************)
(* read(bid), lines 107-128: [found, ok, block].  read changes nothing in  *)
(* the layout; it is a function of the state it is called in.              *)
(***************************************************************************)
read(bid) ==
    IF bid \notin DOMAIN block_index_
    THEN [found |-> FALSE, ok |-> FALSE, block |-> Garbage]
    ELSE LET rb == read_block(options_, disk, file_size, block_index_[bid])
         IN [found |-> TRUE, ok |-> rb.ok, block |-> rb.block]

(***************************************************************************)
(* async_read(bid, block, cb), lines 130-160, and handle_async_read, lines *)
(* 162-192.  The reader is a thread of its own.  rd.log lists what is done *)
(* with the caller's callback: "exec" for cb->exec, "delete" for delete.   *)
(***************************************************************************)
\* lines 132-144: get_block_meta under block_index_mtx_ copies the meta;
\* alloc: alloc_aligned_buffer returns a buffer
AsyncRead(bid, alloc) ==
    /\ MayCall
    /\ rd.pc \in {"free", "done"}
    /\ rd.n < MaxReads
    /\ MayName(bid)
    /\ rd' = IF bid \in DOMAIN block_index_ /\ alloc
             THEN [NoRd EXCEPT !.pc = "submit", !.n = rd.n + 1, !.bid = bid,
                               !.meta = block_index_[bid]]
             ELSE [NoRd EXCEPT !.pc = "done", !.n = rd.n + 1, !.bid = bid,
                               !.log = <<"exec">>]
    /\ UNCHANGED <<options_, memVars, diskVars, ctlVars, ghostVars, fly_reads_,
                   lockVars>>

\* lines 155-159: fly_reads_ ++ under mtx_ and the submission
ReadSubmit ==
    /\ phase = "open"
    /\ rd.pc = "submit"
    /\ fly_reads_' = fly_reads_ + 1
    /\ rd' = [rd EXCEPT !.pc = "inflight"]
    /\ UNCHANGED <<options_, memVars, diskVars, ctlVars, ghostVars, lockVars>>

\* the I/O completes with what the file holds now at the extent of the
\* copied meta, and aio_complete_handler runs handle_async_read
ReadComplete(succ) ==
    /\ phase = "open"
    /\ rd.pc = "inflight"
    /\ LET inside == ReadOk(disk, file_size, rd.meta.offset, rd.meta.compressed_size)
           u == uncompress_data(options_,
                                ReadPages(disk, rd.meta.offset, rd.meta.compressed_size),
                                rd.meta.compressed_size, rd.meta.inflated_size)
       IN /\ succ => inside
          /\ (~succ /\ inside) => MayFail
          /\ budget' = IF ~succ /\ inside THEN Fail(budget) ELSE budget
          /\ fly_reads_' = fly_reads_ - 1
          /\ IF succ /\ options_ # kNoCompress /\ u = Garbage
             THEN /\ phase' = "aborted"
                  /\ rd' = rd
             ELSE /\ phase' = phase
                  /\ rd' = [rd EXCEPT !.pc = "done", !.succ = succ,
                                      !.block = IF succ THEN u ELSE Garbage,
                                      !.log = <<"exec", "delete">>]
    /\ UNCHANGED <<options_, memVars, diskVars, req, del, fl, ghostVars, lockVars>>

(***************************************************************************)
(* Specification.                                                          *)
(***************************************************************************)
Next ==
    \/ \E f \in 0..2 : InitCreate(f)
    \/ \E f \in 0..3 : InitOpen(f)
    \/ \E b \in Bids : AsyncWrite(b)
    \/ \E r \in Reqs : WriteGetOffset(r)
    \/ \E r \in Reqs : WriteSubmit(r)
    \/ \E r \in Reqs, s \in BOOLEAN : WriteComplete(r, s)
    \/ \E r \in Reqs : WriteSetMeta(r)
    \/ \E r \in Reqs : WriteAddHole(r)
    \/ \E r \in Reqs : WriteAddHoleList(r)
    \/ \E b \in Bids : DeleteBlock(b)
    \/ DeleteMeta
    \/ DeleteAddHole
    \/ DeleteAddHoleList
    \/ \E c \in BOOLEAN : FlushCall(c)
    \/ FlushWait
    \/ FlushIndexSize
    \/ FlushWriteIndex
    \/ FlushGetHole
    \/ FlushGetOffset
    \/ FlushWriteDataBegin
    \/ \E s \in BOOLEAN : FlushWriteData(s)
    \/ FlushAddHole
    \/ FlushAddHoleList
    \/ FlushOffsetIndex
    \/ FlushSuperblock1Begin
    \/ \E s \in BOOLEAN : FlushSuperblock1(s)
    \/ FlushSuperblock2Begin
    \/ \E s \in BOOLEAN : FlushSuperblock2(s)
    \/ FlushTruncate
    \/ Destroy
    \/ Crash
    \/ ZeroFirstSuperblock

Spec == Init /\ [][Next]_vars

\* The layout with a reader: a file is created, blocks are written, deleted
\* and flushed while async_read runs.
NextRead ==
    \/ \E f \in 0..2 : InitCreate(f)
    \/ \E b \in Bids : AsyncWrite(b)
    \/ \E r \in Reqs : WriteGetOffset(r)
    \/ \E r \in Reqs : WriteSubmit(r)
    \/ \E r \in Reqs, s \in BOOLEAN : WriteComplete(r, s)
    \/ \E r \in Reqs : WriteSetMeta(r)
    \/ \E r \in Reqs : WriteAddHole(r)
    \/ \E r \in Reqs : WriteAddHoleList(r)
    \/ \E b \in Bids : DeleteBlock(b)
    \/ DeleteMeta
    \/ DeleteAddHole
    \/ DeleteAddHoleList
    \/ FlushCall(FALSE)
    \/ FlushWait
    \/ FlushIndexSize
    \/ FlushWriteIndex
    \/ FlushGetHole
    \/ FlushGetOffset
    \/ FlushWriteDataBegin
    \/ \E s \in BOOLEAN : FlushWriteData(s)
    \/ FlushAddHole
    \/ FlushAddHoleList
    \/ FlushOffsetIndex
    \/ FlushSuperblock1Begin
    \/ \E s \in BOOLEAN : FlushSuperblock1(s)
    \/ FlushSuperblock2Begin
    \/ \E s \in BOOLEAN : FlushSuperblock2(s)
    \/ FlushTruncate
    \/ \E b \in Bids, a \in BOOLEAN : AsyncRead(b, a)
    \/ ReadSubmit
    \/ \E s \in BOOLEAN : ReadComplete(s)

SpecRead == Init /\ [][NextRead]_vars

(***************************************************************************)
(* The layout under fair scheduling: a file is created, a bounded number   *)
(* of async_write and flush calls are made, every thread that can take a   *)
(* step eventually takes one and every submitted I/O completes.            *)
(***************************************************************************)
\* the steps of the calls in progress and the completions of their I/O
Progress ==
    \/ \E r \in Reqs : WriteGetOffset(r)
    \/ \E r \in Reqs : WriteSubmit(r)
    \/ \E r \in Reqs, s \in BOOLEAN : WriteComplete(r, s)
    \/ \E r \in Reqs : WriteSetMeta(r)
    \/ \E r \in Reqs : WriteAddHole(r)
    \/ \E r \in Reqs : WriteAddHoleList(r)
    \/ FlushWait
    \/ FlushIndexSize
    \/ FlushWriteIndex
    \/ FlushGetHole
    \/ FlushGetOffset
    \/ FlushWriteDataBegin
    \/ \E s \in BOOLEAN : FlushWriteData(s)
    \/ FlushAddHole
    \/ FlushAddHoleList
    \/ FlushOffsetIndex
    \/ FlushSuperblock1Begin
    \/ \E s \in BOOLEAN : FlushSuperblock1(s)
    \/ FlushSuperblock2Begin
    \/ \E s \in BOOLEAN : FlushSuperblock2(s)
    \/ FlushTruncate

NextLive ==
    \/ \E f \in 0..2 : InitCreate(f)
    \/ \E b \in Bids : AsyncWrite(b)
    \/ FlushCall(FALSE)
    \/ Progress

SpecLive == Init /\ [][NextLive]_vars /\ WF_vars(Progress)

(***************************************************************************)
(* The mutexes.  Each function is the sequence of the lock and unlock      *)
(* events of a call of it, in program order, on the path that enters every *)
(* critical section of the function; a ScopedMutex unlocks at the end of   *)
(* its scope, the latest constructed first.                                *)
(***************************************************************************)
Acq(m) == <<"lock", m>>

Rel(m) == <<"unlock", m>>

Crit(m) == <<Acq(m), Rel(m)>>

\* lines 665-667 and 671-673
locks_read_data == Crit("mtx_") \o Crit("mtx_")

\* lines 686-688 and 692-694
locks_write_data == Crit("mtx_") \o Crit("mtx_")

\* line 574
locks_get_block_meta == Crit("block_index_mtx_")

\* line 942
locks_get_hole == Crit("hole_list_mtx_")

\* lines 769 and 773
locks_get_offset == locks_get_hole \o Crit("mtx_")

\* lines 870-875 and 877
locks_add_hole == Crit("mtx_") \o Crit("hole_list_mtx_")

\* lines 590-605 and 608
locks_set_block_meta == Crit("block_index_mtx_") \o locks_add_hole

\* lines 614-629 and 630
locks_del_block_meta == Crit("block_index_mtx_") \o locks_add_hole

\* line 285
locks_truncate == Crit("mtx_")

\* lines 362 and 370
locks_flush_superblock == locks_write_data \o locks_write_data

\* lines 407 (get_index_size), 417 (write_index), 435, 436, 445, 451-456
locks_flush_index ==
    Crit("block_index_mtx_") \o Crit("block_index_mtx_") \o locks_get_offset
    \o locks_write_data \o locks_add_hole \o Crit("block_index_mtx_")

\* lines 260-267, 269 and 271
locks_flush ==
    Crit("mtx_") \o locks_flush_index \o locks_flush_superblock \o locks_truncate

\* lines 835, 848, 853 and the end of the scope at 862
locks_init_holes ==
    <<Acq("block_index_mtx_")>> \o locks_add_hole
    \o <<Acq("mtx_"), Rel("mtx_"), Rel("block_index_mtx_")>>

LockOps == {"init_create", "init_open", "read", "async_read", "handle_async_read",
            "async_write", "handle_async_write", "delete_block", "flush"}

Locks(op) ==
    CASE op = "init_create" ->          \* lines 67, 73, 103
            locks_flush_superblock \o Crit("mtx_") \o locks_truncate
      [] op = "init_open" ->            \* lines 81, 90 (389, 395), 95-99, 103
            locks_read_data \o locks_read_data \o Crit("block_index_mtx_")
            \o Crit("block_index_mtx_") \o locks_init_holes
            \o Crit("block_index_mtx_") \o Crit("block_index_mtx_")
            \o locks_truncate
      [] op = "read" ->                 \* lines 110, 116 (642)
            locks_get_block_meta \o locks_read_data
      [] op = "async_read" ->           \* lines 133, 155-157
            locks_get_block_meta \o Crit("mtx_")
      [] op = "handle_async_read" ->    \* lines 164-166
            Crit("mtx_")
      [] op = "async_write" ->          \* lines 211, 215-217
            locks_get_offset \o Crit("mtx_")
      [] op = "handle_async_write" ->   \* lines 224-226, 231
            Crit("mtx_") \o locks_set_block_meta
      [] op = "delete_block" ->         \* lines 250, 255
            locks_get_block_meta \o locks_del_block_meta
      [] OTHER -> locks_flush

\* a thread enters an operation of the layout
LockCall(t, op) ==
    /\ walk[t] = NoWalk
    /\ walk' = [walk EXCEPT ![t] = [op |-> op, at |-> 1]]
    /\ UNCHANGED <<options_, memVars, diskVars, ctlVars, ghostVars, readVars, held>>

\* Mutex::lock: the thread goes on when the mutex is free
LockAcquire(t) ==
    /\ walk[t] # NoWalk
    /\ walk[t].at <= Len(Locks(walk[t].op))
    /\ LET e == Locks(walk[t].op)[walk[t].at]
       IN /\ e[1] = "lock"
          /\ held[e[2]] = 0
          /\ held' = [held EXCEPT ![e[2]] = t]
    /\ walk' = [walk EXCEPT ![t].at = @ + 1]
    /\ UNCHANGED <<options_, memVars, diskVars, ctlVars, ghostVars, readVars>>

\* Mutex::unlock
LockRelease(t) ==
    /\ walk[t] # NoWalk
    /\ walk[t].at <= Len(Locks(walk[t].op))
    /\ LET e == Locks(walk[t].op)[walk[t].at]
       IN /\ e[1] = "unlock"
          /\ held' = [held EXCEPT ![e[2]] = 0]
    /\ walk' = [walk EXCEPT ![t].at = @ + 1]
    /\ UNCHANGED <<options_, memVars, diskVars, ctlVars, ghostVars, readVars>>

\* the operation returns
LockReturn(t) ==
    /\ walk[t] # NoWalk
    /\ walk[t].at > Len(Locks(walk[t].op))
    /\ walk' = [walk EXCEPT ![t] = NoWalk]
    /\ UNCHANGED <<options_, memVars, diskVars, ctlVars, ghostVars, readVars, held>>

NextLocks ==
    \/ \E t \in Threads, op \in LockOps : LockCall(t, op)
    \/ \E t \in Threads : LockAcquire(t)
    \/ \E t \in Threads : LockRelease(t)
    \/ \E t \in Threads : LockReturn(t)

SpecLocks == Init /\ [][NextLocks]_vars

(***************************************************************************)
(* What the properties speak about.                                        *)
(***************************************************************************)
\* every call of the open layout has returned
Idle == phase = "open" /\ Quiet /\ fl.pc = "idle"

\* the owners of the live metas: the bids of block_index_ and, when the
\* superblock has one, the index block
LiveOwners ==
    DOMAIN block_index_
    \cup (IF superblock_.index_block_meta # <<>> THEN {IndexRef} ELSE {})

LiveExtent(o) ==
    IF o = IndexRef THEN Extent(superblock_.index_block_meta[1])
    ELSE Extent(block_index_[o])

\* the pages of the stored blocks that no modelled call names
BaseExtent == [offset |-> 2 * SUPER_BLOCK_SIZE, size |-> nbase * PAGE_SIZE]

SuperExtent == [offset |-> 0, size |-> 2 * SUPER_BLOCK_SIZE]

RECURSIVE LiveSize(_)
LiveSize(S) ==
    IF S = {} THEN 0
    ELSE LET o == CHOOSE x \in S : TRUE
         IN LiveExtent(o).size + LiveSize(S \ {o})

RECURSIVE HoleSize(_)
HoleSize(hl) == IF hl = <<>> THEN 0 ELSE Head(hl).size + HoleSize(Tail(hl))

Holes == {hole_list_[i] : i \in 1..Len(hole_list_)}

\* the bytes of the index block that superblock copy i on disk refers to
\* are the ones written for it
Intact(i) ==
    /\ sb[i].has_index
    /\ committed[i] # Garbage
    /\ ReadOk(disk, file_size, sb[i].meta.offset, sb[i].meta.compressed_size)
    /\ ReadPages(disk, sb[i].meta.offset, sb[i].meta.compressed_size) = committed[i]

\* read(bid) returns the block that was last installed for bid at the close
ReadsBack(b) ==
    expect[b] # <<>> =>
        /\ read(b).found
        /\ read(b).ok
        /\ read(b).block = expect[b][1]

\* the requests of a behaviour name pairwise distinct bids
DistinctBids ==
    \A r1, r2 \in Reqs :
        (r1 # r2 /\ req[r1].pc # "free" /\ req[r2].pc # "free")
            => req[r1].bid # req[r2].bid

(***************************************************************************)
(* Properties.                                                             *)
(***************************************************************************)
\* C1: round trip.  When the layout was closed after a flush that returned
\* true and the file is reopened with init(create = false), read(bid)
\* returns, for every bid, the block last written with success for it.
C1_RoundTrip ==
    (phase = "open" /\ budget.reopens > 0 /\ ~budget.zeroed)
        => \A b \in Bids : ReadsBack(b)

\* C2: no overlap.  When every call has returned, the extents of the live
\* metas (the entries of the block index and the index block) are pairwise
\* disjoint and start on a page boundary.
C2_NoOverlap ==
    Idle =>
        /\ \A o1, o2 \in LiveOwners :
              o1 # o2 => ~Overlap(LiveExtent(o1), LiveExtent(o2))
        /\ \A o \in LiveOwners :
              /\ ~Overlap(LiveExtent(o), BaseExtent)
              /\ LiveExtent(o).offset % PAGE_SIZE = 0

\* C3: space conservation.  When every call has returned, the sizes of the
\* live extents, the sizes of the holes and the two superblocks add up to
\* the file end offset.
C3_SpaceConservation ==
    Idle =>
        LiveSize(LiveOwners) + BaseExtent.size + HoleSize(hole_list_)
            + 2 * SUPER_BLOCK_SIZE = offset_

\* C4: hole list well-formedness.  When every call has returned, the holes
\* are sorted by strictly increasing offset, no hole touches or overlaps the
\* next one, and no hole overlaps a live extent or the superblocks.
C4_HoleListWellFormed ==
    Idle =>
        /\ \A i \in 1..(Len(hole_list_) - 1) :
              hole_list_[i].offset + hole_list_[i].size < hole_list_[i + 1].offset
        /\ \A h \in Holes :
              /\ h.size > 0
              /\ ~Overlap(h, SuperExtent)
              /\ ~Overlap(h, BaseExtent)
              /\ \A o \in LiveOwners : ~Overlap(h, LiveExtent(o))

\* C5: tail compactness.  When every call has returned, no hole of the hole
\* list ends at the file end offset.
C5_TailCompact ==
    Idle => \A h \in Holes : h.offset + h.size # offset_

\* C6: crash-safe checkpoint.  While flush runs, once a superblock copy on
\* disk refers to an index block, at least one copy refers to an index block
\* whose extent on disk still holds the bytes written for it.
C6_CrashSafe ==
    (phase = "open" /\ fl.pc \notin {"idle", "destroy"}
       /\ (sb[1].has_index \/ sb[2].has_index))
        => (Intact(1) \/ Intact(2))

\* C7: superblock redundancy.  When blocks were written, the layout closed,
\* the first superblock overwritten with zeros and the file reopened, init
\* succeeds and read returns every block as it was at the close.
C7_Redundancy ==
    (budget.zeroed /\ phase # "closed" /\ budget.io \notin {<<2>>, <<3>>}
       /\ \E b \in Bids : expect[b] # <<>>)
        => (phase = "open" /\ \A b \in Bids : ReadsBack(b))

\* C8: a failed write leaves the state unchanged.  When the I/O of an
\* async_write failed and its handler has finished, the callback got false,
\* and, no other call having run meanwhile, the hole list, the file end
\* offset and the block index are what they were when async_write was called.
C8_FailedWrite ==
    \A r \in Reqs :
        (phase = "open" /\ req[r].pc = "done" /\ ~req[r].succ) =>
            /\ req[r].cb = <<FALSE>>
            /\ req[r].pre # <<>> =>
                  /\ hole_list_ = req[r].pre[1]
                  /\ offset_ = req[r].pre[2]
                  /\ block_index_ = req[r].pre[3]

\* C9: concurrent independence.  The callback of a request is executed once,
\* at the end of its handler, with the status of its own I/O; and when
\* writes of pairwise distinct bids have all completed, the block index maps
\* the bid of each successful write to the meta reserved for it and has no
\* entry for the bid of a failed one.
C9_Independence ==
    /\ \A r \in Reqs :
          req[r].cb = IF req[r].pc = "done" THEN <<req[r].succ>> ELSE <<>>
    /\ (phase = "open" /\ DistinctBids /\ budget.deletes = 0
          /\ \A r \in Reqs : req[r].pc \in {"free", "done"})
        => \A r \in Reqs :
              req[r].pc = "done" =>
                  IF req[r].succ
                  THEN /\ req[r].bid \in DOMAIN block_index_
                       /\ block_index_[req[r].bid] = req[r].meta
                  ELSE req[r].bid \notin DOMAIN block_index_

\* two writes of distinct bids ran in parallel; one succeeded, one failed
C9_Witness ==
    /\ phase = "open"
    /\ req[1].pc = "done" /\ req[2].pc = "done" /\ req[3].pc = "free"
    /\ req[1].bid # req[2].bid
    /\ req[2].par
    /\ req[1].succ /\ ~req[2].succ
    /\ req[1].bid \in DOMAIN block_index_

\* C10: flush drain.  When flush has returned true, the completion handler
\* of every async_write that had returned before flush was called has
\* finished.
C10_FlushDrain ==
    (phase = "open" /\ fl.pc \in {"idle", "destroy"} /\ fl.result = <<TRUE>>)
        => \A r \in fl.prior : req[r].pc = "done"

\* the pages of an extent, and the pages that the holes of a list cover
Pages(e) == {p \in 0..((e.offset + e.size) \div PAGE_SIZE - 1) :
                p * PAGE_SIZE >= e.offset}

Covered(hl) == UNION {Pages(hl[i]) : i \in 1..Len(hl)}

\* delete_block has returned after removing a block, and no other call ran
\* between its call and its return
DeletedAlone == phase = "open" /\ del.pc = "idle" /\ del.bid # 0 /\ del.pre # <<>>

\* C11: delete reclaims.  After delete_block(bid) of a present bid, run with
\* no other call, bid is in neither view of the index, every page of its
\* former extent is in a hole or at or past the file end offset, and when the
\* extent did not end at the file end offset, that offset is unchanged and
\* the hole list covers what it covered before plus exactly that extent.
C11_DeleteReclaims ==
    DeletedAlone =>
        /\ del.bid \notin DOMAIN block_index_
        /\ \A o \in DOMAIN block_offset_index_ : block_offset_index_[o] # del.bid
        /\ \A p \in Pages(del.hole) :
              p \in Covered(hole_list_) \/ p * PAGE_SIZE >= offset_
        /\ (del.hole.offset + del.hole.size # del.pre[2]) =>
              /\ offset_ = del.pre[2]
              /\ Covered(hole_list_) = Covered(del.pre[1]) \cup Pages(del.hole)
              /\ HoleSize(hole_list_) = HoleSize(del.pre[1]) + del.hole.size

\* a block that is not the last of the file was deleted while another block
\* stays: its extent is a hole now
C11_Witness ==
    /\ DeletedAlone
    /\ del.hole.offset + del.hole.size # del.pre[2]
    /\ del.hole.size > 0
    /\ DOMAIN block_index_ # {}
    /\ \E i \in 1..Len(hole_list_) : hole_list_[i] = del.hole

\* async_write has its extent, and no other call ran since it was called
PlacedAlone(r) == phase = "open" /\ req[r].pc = "reserved" /\ req[r].pre # <<>>

\* the holes of hl that can take size bytes
Fits(hl, size) == {i \in 1..Len(hl) : hl[i].size >= size}

\* C12: placement rule.  get_offset(size) takes the lowest-offset hole of
\* size at least size: a hole of equal size leaves the list, a larger one
\* has its offset advanced and its size reduced by size, the other holes and
\* the file end offset stay.  Only when no hole fits is the file end offset
\* returned and advanced by size, the hole list staying as it was.
C12_Placement ==
    \A r \in Reqs :
        PlacedAlone(r) =>
            LET size == PAGE_ROUND_UP(req[r].meta.compressed_size)
                hl == req[r].pre[1]
                F == Fits(hl, size)
            IN IF F = {}
               THEN /\ req[r].meta.offset = req[r].pre[2]
                    /\ offset_ = req[r].pre[2] + size
                    /\ hole_list_ = hl
               ELSE LET i == CHOOSE k \in F : \A j \in F : hl[k].offset <= hl[j].offset
                    IN /\ req[r].meta.offset = hl[i].offset
                       /\ offset_ = req[r].pre[2]
                       /\ IF hl[i].size = size
                          THEN /\ Len(hole_list_) = Len(hl) - 1
                               /\ \A j \in 1..Len(hole_list_) :
                                     hole_list_[j] = IF j < i THEN hl[j] ELSE hl[j + 1]
                          ELSE /\ Len(hole_list_) = Len(hl)
                               /\ \A j \in 1..Len(hl) :
                                     hole_list_[j] =
                                         IF j = i THEN Hole(hl[i].offset + size,
                                                            hl[i].size - size)
                                         ELSE hl[j]

\* a write was placed at the start of a hole larger than its extent
C12_Witness ==
    \E r \in Reqs :
        /\ PlacedAlone(r)
        /\ \E i \in 1..Len(req[r].pre[1]) :
              /\ req[r].pre[1][i].size > PAGE_ROUND_UP(req[r].meta.compressed_size)
              /\ req[r].pre[1][i].offset = req[r].meta.offset
              /\ hole_list_[i].offset = req[r].meta.offset
                                         + PAGE_ROUND_UP(req[r].meta.compressed_size)

\* flush has returned true, it was called right after a flush that had
\* returned true, and no other call ran from the call of the first to the
\* return of the second
FlushedTwice ==
    /\ phase = "open"
    /\ fl.pc \in {"idle", "destroy"}
    /\ fl.result = <<TRUE>>
    /\ fl.alone
    /\ fl.pre # <<>>

\* C13: idempotent flush.  After two consecutive successful flushes with no
\* call between them, both superblocks (index meta included), the bytes of
\* the index block and the file length are what they were after the first.
C13_IdempotentFlush ==
    FlushedTwice =>
        /\ sb = fl.pre[1]
        /\ file_size = fl.pre[2]
        /\ StoredIndexBytes = fl.pre[3]

\* the layout was closed after a flush that returned true, and the file,
\* untouched since, was reopened with init(create = false)
Reopened == phase = "open" /\ budget.reopens > 0 /\ ~budget.zeroed /\ fl.mem # <<>>

\* C14: reopen rebuilds the free space identically.  After writes and
\* deletes, a close whose flush returned true and a reopen, the hole list
\* and the file end offset built by init are the ones that the layout held
\* when that flush had finished.
C14_ReopenFreeSpace ==
    Reopened =>
        /\ hole_list_ = fl.mem[1]
        /\ offset_ = fl.mem[2]

\* the write of request r has succeeded and its handler has finished, no
\* other call ran meanwhile; when async_write was called, the extent of its
\* bid was the last of the file and had the page-rounded size of the new one
TailOverwritten(r) ==
    /\ phase = "open"
    /\ req[r].pc = "done" /\ req[r].succ
    /\ req[r].pre # <<>>
    /\ req[r].bid \in DOMAIN req[r].pre[3]
    /\ LET old == Extent(req[r].pre[3][req[r].bid])
       IN /\ ExtEnd(old) = req[r].pre[2]
          /\ old.size = PAGE_ROUND_UP(req[r].meta.compressed_size)

\* C15: overwrite of the tail block reclaims in place.  When the extent of
\* bid ends at the file end offset and bid is overwritten with success by a
\* block of the same page-rounded size, the file end offset and the hole
\* list are afterwards what they were, and bid has exactly one live extent.
C15_TailOverwrite ==
    \A r \in Reqs :
        TailOverwritten(r) =>
            /\ offset_ = req[r].pre[2]
            /\ hole_list_ = req[r].pre[1]
            /\ req[r].bid \in DOMAIN block_index_
            /\ Cardinality({o \in DOMAIN block_offset_index_ :
                               block_offset_index_[o] = req[r].bid}) = 1

\* init(create = true) and then one flush, which returned true; no block
\* was ever written
FreshFlushed ==
    /\ phase = "open"
    /\ nbase = 0
    /\ budget.reopens = 0 /\ budget.writes = 0 /\ budget.deletes = 0
    /\ budget.flushes = 1
    /\ fl.pc \in {"idle", "destroy"}
    /\ fl.result = <<TRUE>>

\* C16: fresh create.  After init(create = true) and a flush with no block
\* ever written, both superblock copies are written, the index has no
\* block, and the file length and the file end offset are
\* 2 * SUPER_BLOCK_SIZE.
C16_FreshCreate ==
    FreshFlushed =>
        /\ sb[1].magic = MAGIC /\ sb[2].magic = MAGIC
        /\ block_index_ = << >>
        /\ file_size = 2 * SUPER_BLOCK_SIZE
        /\ offset_ = 2 * SUPER_BLOCK_SIZE

\* C17: callback exactly once, then released.  The callback of every
\* async_write and of every async_read that has finished, whatever its path
\* (bid not found, no buffer, I/O success, I/O failure), was executed once
\* and then deleted once; before that, nothing was done with it.
C17_CallbackOnce ==
    /\ \A r \in Reqs :
          IF req[r].pc = "done"
          THEN Len(req[r].cb) = 1 /\ req[r].rel = 1
          ELSE req[r].cb = <<>> /\ req[r].rel = 0
    /\ rd.log = IF rd.pc = "done" THEN <<"exec", "delete">> ELSE <<>>

\* the extents that get_offset has handed out to calls still in progress
HandedOut ==
    {Extent(req[r].meta) :
        r \in {q \in Reqs : req[q].pc \in {"reserved", "inflight", "set_block_meta"}}}
    \cup (IF fl.pc \in {"write_data", "write_data_io"}
          THEN {[offset |-> fl.offset, size |-> PAGE_ROUND_UP(fl.csize)]}
          ELSE {})

\* C20: in-flight reads are protected.  While an async_read is in flight on
\* the extent of the meta it copied, no write holds an extent from
\* get_offset that overlaps it and the file still reaches to its end; and a
\* read that reports success delivers a block that was written for its bid.
C20_ReadProtected ==
    /\ (phase = "open" /\ rd.pc = "inflight") =>
          /\ \A e \in HandedOut : ~Overlap(e, Extent(rd.meta))
          /\ ExtEnd(Extent(rd.meta)) <= file_size
    /\ (phase = "open" /\ rd.pc = "done" /\ rd.succ) =>
          /\ rd.block.kind = "blk"
          /\ rd.block.data \in Reqs
          /\ req[rd.block.data].bid = rd.bid

\* init(create = false) has just returned (or stopped in an assert)
Opened == budget.io # <<>> /\ Calls = 0 /\ phase \in {"open", "failed", "aborted"}

\* the superblock that init loaded, and whether the index block it refers
\* to could not be read or is not the serialized index its meta describes
LoadedSuperblock == load_superblock(sb, budget.io[1])

IndexUnusable ==
    /\ LoadedSuperblock.index_block_meta # <<>>
    /\ LET m == LoadedSuperblock.index_block_meta[1]
           u == uncompress_data(options_, ReadPages(disk, m.offset, m.compressed_size),
                                m.compressed_size, m.inflated_size)
       IN \/ budget.io = <<3>>
          \/ ~ReadOk(disk, file_size, m.offset, m.compressed_size)
          \/ u = Garbage
          \/ u.kind # "idx"

Rejected ==
    \/ file_size < 2 * SUPER_BLOCK_SIZE
    \/ budget.io = <<2>>
    \/ LoadedSuperblock.compress # options_
    \/ IndexUnusable

\* C18: open-time rejection.  init(create = false) returns false, with no
\* block loaded into the index, when the file is shorter than two
\* superblocks, or no superblock copy can be read, or the compression of the
\* loaded superblock is not the configured one, or the index block it refers
\* to cannot be read or parsed; in every other case it returns true.
C18_OpenRejection ==
    Opened =>
        IF Rejected
        THEN phase = "failed" /\ block_index_ = << >> /\ nbase = 0
        ELSE phase = "open"

\* the mutexes that thread t holds
HeldBy(t) == {m \in Mutexes : held[m] = t}

\* C19: lock discipline.  In no operation of the layout does a thread hold
\* two of the three mutexes at the same time (and so none is ever acquired
\* out of the order mtx_, block_index_mtx_, hole_list_mtx_).
C19_LockDiscipline ==
    \A t \in Threads : Cardinality(HeldBy(t)) <= 1

\* the keys of the offset index under which owner o is entered
KeysOf(o) == {k \in DOMAIN block_offset_index_ : block_offset_index_[k] = o}

\* C21: two-view index consistency.  In every state of an open layout
\* (block_index_mtx_ is held only inside a step, so it is free in every
\* state): every meta of the block index is entered in the offset index
\* under exactly one key, its own offset; the offset index has no other
\* entry but the one of the superblock's index meta, when present, under
\* that meta's current offset; and the index meta is no entry of the block
\* index.
C21_TwoViews ==
    phase = "open" =>
        /\ \A b \in DOMAIN block_index_ : KeysOf(b) = {block_index_[b].offset}
        /\ \A k \in DOMAIN block_offset_index_ :
              \/ block_offset_index_[k] \in DOMAIN block_index_
              \/ /\ block_offset_index_[k] = IndexRef
                 /\ superblock_.index_block_meta # <<>>
                 /\ k = superblock_.index_block_meta[1].offset
        /\ IndexRef \notin DOMAIN block_index_

\* the extents handed out by get_offset that are not live yet: those of the
\* writes up to set_block_meta, and the one of the index block that
\* flush_index writes, up to line 458
ReservedExtents ==
    {Hole(req[r].meta.offset, PAGE_ROUND_UP(req[r].meta.compressed_size)) :
        r \in {q \in Reqs : req[q].pc \in {"reserved", "inflight", "set_block_meta"}}}
    \cup (IF ~fl.failed /\ fl.pc \in {"write_data", "write_data_io", "add_hole", "add_hole_list",
                                      "offset_index", "superblock1"}
          THEN {Hole(fl.offset, PAGE_ROUND_UP(fl.csize))} ELSE {})

\* init has returned true and nothing was called since, or flush has
\* returned true, nothing ran beside it and nothing was called since
ReturnedAlone ==
    /\ phase = "open"
    /\ Active = 0
    /\ \/ Calls = 0
       \/ fl.pc \in {"idle", "destroy"} /\ fl.result = <<TRUE>> /\ fl.alone

\* flush_index has written the new index block and not yet entered it in
\* the superblock (lines 443-457): the extent of the index block is the
\* reserved one, the old one is being released
IndexMoving ==
    ~fl.failed /\ fl.pc \in {"add_hole", "add_hole_list", "offset_index", "superblock1"}

FileEndBound ==
    /\ \A o \in LiveOwners :
          (o = IndexRef /\ IndexMoving) \/ ExtEnd(LiveExtent(o)) <= offset_
    /\ \A e \in ReservedExtents : ExtEnd(e) <= offset_
    /\ \A h \in Holes : ExtEnd(h) <= offset_
    /\ offset_ <= length_

\* C22: file-end bound and truncation.  In every state of a layout whose
\* init returned true, no live extent, no reserved extent and no hole ends
\* past offset_, and offset_ <= length_; and when init or flush has returned
\* true with no call beside it, the length of the file is offset_.
C22_FileEnd ==
    phase = "open" =>
        /\ FileEndBound
        /\ ReturnedAlone => file_size = offset_

\* the process stopped between the index-block write and the superblock
\* write of a flush, and init(create = false) has returned true since
OrphanLeft == phase = "open" /\ budget.reopens > 0 /\ fl.orphan # <<>>

\* the keys of the offset index in offset order
OffsetKeys == SortedSeq(DOMAIN block_offset_index_)

\* extent e lies in a gap that init_holes finds: between the superblocks (or
\* the blocks no call names) and the first entry, or between two consecutive
\* entries of the offset index
InGap(e) ==
    \E i \in 1..Len(OffsetKeys) :
        LET last == IF i = 1 THEN BaseEnd(nbase)
                    ELSE ExtEnd(LiveExtent(block_offset_index_[OffsetKeys[i - 1]]))
        IN last <= e.offset /\ ExtEnd(e) <= OffsetKeys[i]

\* C23 as stated: orphaned index block stays unreclaimed.  After a crash
\* between the index-block write and the superblock write of a flush, the
\* next init(create = false) puts no page of the extent of the unreferenced
\* index block into the hole list, wherever that extent lies.
C23_OrphanUnreclaimed ==
    OrphanLeft => Pages(fl.orphan[1]) \cap Covered(hole_list_) = {}

\* C23 amended: after such a crash and init(create = false), an orphaned
\* index block that lies in a gap before an extent the loaded index refers
\* to is wholly inside the rebuilt holes, and no page of it at or past the
\* rebuilt offset_ is in a hole.
C23_OrphanByPlace ==
    OrphanLeft =>
        /\ InGap(fl.orphan[1]) => Pages(fl.orphan[1]) \subseteq Covered(hole_list_)
        /\ \A p \in Pages(fl.orphan[1]) :
              p * PAGE_SIZE >= offset_ => p \notin Covered(hole_list_)

\* an orphaned index block in a gap, reclaimed by init_holes
C23_Witness ==
    /\ OrphanLeft
    /\ InGap(fl.orphan[1])
    /\ Pages(fl.orphan[1]) \subseteq Covered(hole_list_)

\* the writes submitted to the file and not completed: those of async_write
\* and those of write_data
InFlight ==
    Cardinality({r \in Reqs : req[r].pc = "inflight"})
    + (IF fl.pc \in {"write_data_io", "superblock1_io", "superblock2_io"} THEN 1 ELSE 0)

\* C24: flush terminates.  With a bounded number of async_write calls,
\* every submitted I/O completing and fair scheduling, every flush leaves
\* its wait loop and returns; fly_writes_ is never negative, and it is 0
\* whenever every submitted write has completed.
C24_FlushTerminates ==
    /\ (fl.pc = "wait") ~> (fl.pc # "wait")
    /\ (fl.pc # "idle") ~> (fl.pc = "idle")
    /\ [](fly_writes_ >= 0)
    /\ [](InFlight = 0 => fly_writes_ = 0)

=============================================================================
